---- MODULE Spec2Model ----
(***************************************************************************)
(* A model of pymongo_wrapper: the aggregation PipelineBuilder, the two    *)
(* connection providers and the repository classes that forward calls to a *)
(* collection handle.  Python lists are objects on a heap, so that two     *)
(* references to one list see each other's appends; dicts are ordered      *)
(* sequences of <<key, value>> pairs with distinct keys.                   *)
(***************************************************************************)
EXTENDS Integers, Sequences, FiniteSets, TLC

VARIABLES
    heap,        \* the list objects allocated so far: heap[r] is the content of list r
    pipeline,    \* pipeline[b]: the list that builder b's self.pipeline refers to
    calls,       \* calls[b]: the stage calls the caller has made on builder b, in order
    built,       \* built[b]: what the last build() on b returned, and what it held then
    repoLog,     \* the repository operations invoked so far, with what the driver was
                 \* asked and what the caller got back
    djangoInstalled,  \* whether find_package('django') finds the framework
    settings,    \* the framework's settings.DATABASES, as far as 'mongodb' goes
    direct,      \* direct[d]: the MongoDBConnection instance d
    django,      \* django[j]: the DjangoMongoDBConnection instance j
    clients,     \* the MongoClient objects constructed so far, in order
    handles,     \* the collection handle objects resolved so far, in order
    facade,      \* facade[f]: the DBRepository instance f
    wrappers,    \* the repository objects instantiated so far, in order
    accessed     \* the accessor calls made on the facades, with what each returned

pipeVars == <<heap, pipeline, calls, built>>
repoVars == <<repoLog>>
connVars == <<djangoInstalled, settings, direct, django, clients>>
facadeVars == <<handles, facade, wrappers, accessed>>
vars == <<heap, pipeline, calls, built, repoLog,
          djangoInstalled, settings, direct, django, clients,
          handles, facade, wrappers, accessed>>

(***************************************************************************)
(* Bounds of the model.                                                    *)
(***************************************************************************)
MaxCalls == 3        \* stage calls made on all builders together
MaxGroupKeys == 2    \* entries of a groupby list
MaxSortKeys == 2     \* pairs of a sortby list
MaxRepoCalls == 2    \* repository operations invoked
MaxDocs == 2         \* documents of one insert_many
MaxHandOvers == 1    \* built pipelines handed to an aggregation method
MaxGets == 3         \* get_database calls made on all providers together
MaxAccesses == 3     \* accessor calls made on all facades together

Builders == {"b1", "b2"}
NoRef == 0
NoBuild == [ref |-> NoRef, seen |-> <<>>, ncalls |-> 0]

(***************************************************************************)
(* Python dict: insertion-ordered, assignment to a present key keeps the   *)
(* key's position and replaces its value.                                  *)
(***************************************************************************)
DictKeys(d) == {d[i][1] : i \in DOMAIN d}

DictGet(d, k) == d[CHOOSE i \in DOMAIN d : d[i][1] = k][2]

DictSet(d, k, v) ==
    IF k \in DictKeys(d)
    THEN [i \in DOMAIN d |-> IF d[i][1] = k THEN <<k, v>> ELSE d[i]]
    ELSE Append(d, <<k, v>>)

RECURSIVE DictUpdate(_, _)
DictUpdate(d, items) ==
    IF items = <<>> THEN d
    ELSE DictUpdate(DictSet(d, Head(items)[1], Head(items)[2]), Tail(items))

dict(pairs) == DictUpdate(<<>>, pairs)

(***************************************************************************)
(* PipelineBuilder                                                         *)
(***************************************************************************)
Stage(op, payload) == [op |-> op, payload |-> payload]

PrependStage(h, ref, stage) == [h EXCEPT ![ref] = <<stage>> \o @]

\* self.pipeline.append(stage): the list object is changed in place
AppendStage(h, ref, stage) == [h EXCEPT ![ref] = Append(@, stage)]

StageBudget ==
    LET RECURSIVE Total(_)
        Total(S) == IF S = {} THEN 0
                    ELSE LET b == CHOOSE x \in S : TRUE
                         IN Len(calls[b]) + Total(S \ {b})
    IN Total(Builders) < MaxCalls

\* one stage call: append the stage to the builder's own list, return self
StageCall(b, method, args, stage) ==
    /\ pipeline[b] # NoRef
    /\ StageBudget
    /\ heap' = AppendStage(heap, pipeline[b], stage)
    /\ calls' = [calls EXCEPT ![b] = Append(@, [method |-> method, args |-> args])]
    /\ UNCHANGED <<pipeline, built, repoLog, connVars, facadeVars>>

\* PipelineBuilder(): a fresh, empty list per instance
NewBuilder(b) ==
    /\ pipeline[b] = NoRef
    /\ heap' = Append(heap, <<>>)
    /\ pipeline' = [pipeline EXCEPT ![b] = Len(heap) + 1]
    /\ UNCHANGED <<calls, built, repoLog, connVars, facadeVars>>

\* build() returns self.pipeline: the reference to the builder's own list.  seen
\* is the content the caller finds behind the reference when build() returns.
build(b) ==
    /\ pipeline[b] # NoRef
    /\ built' = [built EXCEPT ![b] = [ref |-> pipeline[b],
                                      seen |-> heap[pipeline[b]],
                                      ncalls |-> Len(calls[b])]]
    /\ UNCHANGED <<heap, pipeline, calls, repoLog, connVars, facadeVars>>

match(b, query) == StageCall(b, "match", <<query>>, Stage("$match", query))

project(b, fields) == StageCall(b, "project", <<fields>>, Stage("$project", fields))

RECURSIVE GroupIdOtherKeyed(_, _)
GroupIdOtherKeyed(groupby, id) ==
    IF groupby = <<>> THEN id
    ELSE LET field == Head(groupby)
         IN GroupIdOtherKeyed(Tail(groupby),
                CASE field.kind = "str" -> DictSet(id, field.name, "$" \o field.name)
                  [] field.kind = "dict" -> DictUpdate(id, field.items)
                  [] OTHER -> DictSet(id, "other", "$other"))

\* for field in groupby: a str sets _id[field] = '$field', a dict is merged key
\* by key, anything else is passed over
RECURSIVE GroupId(_, _)
GroupId(groupby, id) ==
    IF groupby = <<>> THEN id
    ELSE LET field == Head(groupby)
         IN GroupId(Tail(groupby),
                CASE field.kind = "str" -> DictSet(id, field.name, "$" \o field.name)
                  [] field.kind = "dict" -> DictUpdate(id, field.items)
                  [] OTHER -> id)

GroupStageIdLast(groupby, kwargs) ==
    DictUpdate(kwargs, <<<<"_id", GroupId(groupby, <<>>)>>>>)

\* group_stage = {'_id': {}}; fill _id; group_stage.update(kwargs)
GroupStage(groupby, kwargs) ==
    DictUpdate(<<<<"_id", GroupId(groupby, <<>>)>>>>, kwargs)

group(b, groupby, kwargs) ==
    StageCall(b, "group", <<groupby, kwargs>>, Stage("$group", GroupStage(groupby, kwargs)))

Reverse(seq) == [i \in DOMAIN seq |-> seq[Len(seq) + 1 - i]]

SortDictReversed(sortby) ==
    dict(Reverse(IF sortby.kind = "tuple" THEN <<sortby.pair>> ELSE sortby.pairs))

\* if isinstance(sortby, tuple): sortby = [sortby]; sort_dict = dict(sortby)
SortDict(sortby) ==
    dict(IF sortby.kind = "tuple" THEN <<sortby.pair>> ELSE sortby.pairs)

sort(b, sortby) == StageCall(b, "sort", <<sortby>>, Stage("$sort", SortDict(sortby)))

skip(b, n) == StageCall(b, "skip", <<n>>, Stage("$skip", n))

limit(b, n) == StageCall(b, "limit", <<n>>, Stage("$limit", n))

unwind(b, field) == StageCall(b, "unwind", <<field>>, Stage("$unwind", field))

(***************************************************************************)
(* Repository classes.  Every method is one call on the collection handle. *)
(* The driver is outside the program: its outcome is any of DriverOutcomes.*)
(***************************************************************************)
None == [type |-> "None", n |-> 0]

Return(value) == [kind |-> "return", value |-> value, error |-> None]

Raise(error) == [kind |-> "raise", value |-> None, error |-> error]

\* what the driver may answer to a call on n documents: a result, a bulk-write
\* error after k < n documents were written, or another driver error
DriverOutcomes(method, n) ==
    {Return([type |-> method \o "_result", n |-> n])}
    \cup {Raise([type |-> "BulkWriteError", n |-> k]) : k \in 0..(n - 1)}
    \cup {Raise([type |-> "ConnectionFailure", n |-> 0])}

DriverCall(method, args, kwargs) == [method |-> method, args |-> args, kwargs |-> kwargs]

RepoBudget == Len(repoLog) < MaxRepoCalls

ForwardTwice(op, args, call, o) ==
    /\ RepoBudget
    /\ repoLog' = Append(repoLog, [op |-> op, args |-> args,
                                   driverCalls |-> IF o.kind = "raise" THEN <<call, call>>
                                                   ELSE <<call>>,
                                   driver |-> o, caller |-> o])
    /\ UNCHANGED <<pipeVars, connVars, facadeVars>>

\* return self.collection.<method>(...): one driver call, whose outcome (value or
\* raised error) is the caller's outcome
Forward(op, args, call, o) ==
    /\ RepoBudget
    /\ repoLog' = Append(repoLog, [op |-> op, args |-> args, driverCalls |-> <<call>>,
                                   driver |-> o, caller |-> o])
    /\ UNCHANGED <<pipeVars, connVars, facadeVars>>

find(query, o) == Forward("find", <<query>>, DriverCall("find", <<query>>, <<>>), o)

\* a pipeline argument is a list object: ref is the object (NoRef for a list the
\* caller wrote in place), at its content when the call is made
PipelineArg(ref) == [ref |-> ref, at |-> heap[ref]]

LiteralPipeline(stages) == [ref |-> NoRef, at |-> stages]

filter_query(pl, o) ==
    Forward("filter_query", <<pl>>, DriverCall("aggregate", <<pl>>, <<>>), o)

insert_one(document, o) ==
    Forward("insert_one", <<document>>, DriverCall("insert_one", <<document>>, <<>>), o)

InsertManyCallerNoCatch(o) == o

\* try: return self.collection.insert_many(documents)
\* except BulkWriteError: pass      (the method then returns None)
InsertManyCaller(o) ==
    IF o.kind = "raise" /\ o.error.type = "BulkWriteError" THEN Return(None) ELSE o

insert_many(documents, o) ==
    /\ RepoBudget
    /\ repoLog' = Append(repoLog,
           [op |-> "insert_many", args |-> <<documents>>,
            driverCalls |-> <<DriverCall("insert_many", <<documents>>, <<>>)>>,
            driver |-> o, caller |-> InsertManyCaller(o)])
    /\ UNCHANGED <<pipeVars, connVars, facadeVars>>

update_one(query, update, o) ==
    Forward("update_one", <<query, update>>,
            DriverCall("update_one", <<query, update>>, <<>>), o)

update_many(query, update, o) ==
    Forward("update_many", <<query, update>>,
            DriverCall("update_many", <<query, update>>, <<>>), o)

upsert(query, update, o) ==
    Forward("upsert", <<query, update>>,
            DriverCall("update_one", <<query, update>>, <<<<"upsert", "True">>>>), o)

delete_one(query, o) ==
    Forward("delete_one", <<query>>, DriverCall("delete_one", <<query>>, <<>>), o)

aggregate(pl, o) ==
    Forward("aggregate", <<pl>>, DriverCall("aggregate", <<pl>>, <<>>), o)

aggregate_exhausted(pl, o) ==
    Forward("aggregate_exhausted", <<pl>>,
            DriverCall("aggregate", <<pl>>, <<<<"cursor_type", "CursorType.EXHAUST">>>>), o)

(***************************************************************************)
(* Connection providers.  A client is the index of its construction in     *)
(* clients; NoClient is self.client = None.                                *)
(***************************************************************************)
Directs == {"d1"}
Djangos == {"j1"}
NoClient == 0
Unset == "<unset>"       \* an attribute that was never assigned
Missing == "<missing>"   \* a key that the settings mapping does not hold

Handle(client, name) == [client |-> client, name |-> name]

KeyError(key) == [type |-> "KeyError", key |-> key]
AttributeError(attr) == [type |-> "AttributeError", key |-> attr]

\* settings.DATABASES['mongodb'][key]
Lookup(cfg, key) ==
    IF ~cfg.section THEN Raise(KeyError("mongodb")) ELSE Return(cfg[key])

GetsBudget ==
    LET RECURSIVE Total(_, _)
        Total(f, S) == IF S = {} THEN 0
                       ELSE LET x == CHOOSE y \in S : TRUE
                            IN Len(f[x].gets) + Total(f, S \ {x})
    IN Total(direct, Directs) + Total(django, Djangos) < MaxGets

UnbornDirect == [state |-> "unborn", uri |-> Unset, client |-> NoClient, gets |-> <<>>]

\* MongoDBConnection(uri): self.uri = uri; self.client = None
MongoDBConnection(d, uri) ==
    /\ direct[d].state = "unborn"
    /\ direct' = [direct EXCEPT ![d] =
                     [state |-> "live", uri |-> uri, client |-> NoClient, gets |-> <<>>]]
    /\ UNCHANGED <<pipeVars, repoVars, facadeVars, djangoInstalled, settings, django, clients>>

DirectUncached(self, database_name, fresh) ==
    [self |-> [self EXCEPT !.client = fresh], constructs |-> TRUE,
     out |-> Return(Handle(fresh, database_name))]

\* MongoDBConnection.get_database: if not self.client: self.client =
\* MongoClient(self.uri); return self.client[database_name].  fresh is the client
\* a construction would yield.
DirectGetDatabase(self, database_name, fresh) ==
    IF self.client = NoClient
    THEN [self |-> [self EXCEPT !.client = fresh], constructs |-> TRUE,
          out |-> Return(Handle(fresh, database_name))]
    ELSE [self |-> self, constructs |-> FALSE,
          out |-> Return(Handle(self.client, database_name))]

direct_get_database(d, database_name) ==
    /\ direct[d].state = "live"
    /\ GetsBudget
    /\ LET r == DirectGetDatabase(direct[d], database_name, Len(clients) + 1)
           n == Len(direct[d].gets) + 1
       IN /\ direct' = [direct EXCEPT ![d] =
                 [r.self EXCEPT !.gets = Append(@, [arg |-> database_name, out |-> r.out])]]
          /\ clients' = IF r.constructs
                        THEN Append(clients, [by |-> d, uri |-> r.self.uri, call |-> n])
                        ELSE clients
    /\ UNCHANGED <<pipeVars, repoVars, facadeVars, djangoInstalled, settings, django>>

UnbornDjango ==
    [state |-> "unborn", error |-> KeyError(""), uri |-> Unset, client |-> NoClient,
     db_name |-> Unset, gets |-> <<>>, reads |-> <<>>]

Read(key, during, call, cfg) ==
    [key |-> key, during |-> during, call |-> call, found |-> Lookup(cfg, key)]

\* DjangoMongoDBConnection.get_db_name(use_django): with the framework, assign
\* self.db_name from the settings; then return self.db_name
DjangoGetDbName(self, use_django, during, call) ==
    IF use_django /\ djangoInstalled
    THEN LET found == Lookup(settings, "DB_NAME")
             logged == [self EXCEPT
                           !.reads = Append(@, Read("DB_NAME", during, call, settings))]
         IN IF found.kind = "raise"
            THEN [self |-> logged, out |-> found]
            ELSE [self |-> [logged EXCEPT !.db_name = found.value], out |-> found]
    ELSE IF self.db_name = Unset
         THEN [self |-> self, out |-> Raise(AttributeError("db_name"))]
         ELSE [self |-> self, out |-> Return(self.db_name)]

DjangoUriWithFallback(self, use_django, during, call) ==
    IF use_django /\ djangoInstalled
    THEN [self |-> [self EXCEPT
                       !.reads = Append(@, Read("URI", during, call, settings))],
          out |-> IF Lookup(settings, "URI").kind = "raise"
                  THEN Return(self.uri) ELSE Lookup(settings, "URI")]
    ELSE [self |-> self, out |-> Return(self.uri)]

\* DjangoMongoDBConnection.get_database_uri(use_django): with the framework, the
\* settings' URI; otherwise self.uri
DjangoGetDatabaseUri(self, use_django, during, call) ==
    IF use_django /\ djangoInstalled
    THEN [self |-> [self EXCEPT
                       !.reads = Append(@, Read("URI", during, call, settings))],
          out |-> Lookup(settings, "URI")]
    ELSE [self |-> self, out |-> Return(self.uri)]

\* DjangoMongoDBConnection(uri): self.client = None; self.uri = uri;
\* self.db_name = self.get_db_name().  An error leaves the constructor, and the
\* caller holds no instance.
DjangoMongoDBConnection(j, uri) ==
    /\ django[j].state = "unborn"
    /\ LET self == [UnbornDjango EXCEPT !.uri = uri]
           r == DjangoGetDbName(self, TRUE, "__init__", 0)
       IN django' = [django EXCEPT ![j] =
              IF r.out.kind = "raise"
              THEN [r.self EXCEPT !.state = "failed", !.error = r.out.error]
              ELSE [r.self EXCEPT !.state = "live", !.db_name = r.out.value]]
    /\ UNCHANGED <<pipeVars, repoVars, facadeVars, djangoInstalled, settings, direct, clients>>

DjangoUncached(self, database_name, call, fresh) ==
    LET r == DjangoGetDatabaseUri(self, TRUE, "get_database", call)
    IN IF r.out.kind = "raise"
       THEN [self |-> r.self, constructs |-> FALSE, out |-> r.out]
       ELSE [self |-> [r.self EXCEPT !.uri = r.out.value, !.client = fresh],
             constructs |-> TRUE,
             out |-> Return(Handle(fresh, self.db_name))]

DjangoGetDatabaseByName(self, database_name, call, fresh) ==
    IF self.client = NoClient
    THEN LET r == DjangoGetDatabaseUri(self, TRUE, "get_database", call)
         IN IF r.out.kind = "raise"
            THEN [self |-> r.self, constructs |-> FALSE, out |-> r.out]
            ELSE [self |-> [r.self EXCEPT !.uri = r.out.value, !.client = fresh],
                  constructs |-> TRUE,
                  out |-> Return(Handle(fresh, database_name))]
    ELSE [self |-> self, constructs |-> FALSE,
          out |-> Return(Handle(self.client, database_name))]

\* DjangoMongoDBConnection.get_database: if not self.client: self.uri =
\* self.get_database_uri(); self.client = MongoClient(self.uri);
\* return self.client[self.db_name]
DjangoGetDatabase(self, database_name, call, fresh) ==
    IF self.client = NoClient
    THEN LET r == DjangoGetDatabaseUri(self, TRUE, "get_database", call)
         IN IF r.out.kind = "raise"
            THEN [self |-> r.self, constructs |-> FALSE, out |-> r.out]
            ELSE [self |-> [r.self EXCEPT !.uri = r.out.value, !.client = fresh],
                  constructs |-> TRUE,
                  out |-> Return(Handle(fresh, self.db_name))]
    ELSE [self |-> self, constructs |-> FALSE,
          out |-> Return(Handle(self.client, self.db_name))]

django_get_database(j, database_name) ==
    /\ django[j].state = "live"
    /\ GetsBudget
    /\ LET n == Len(django[j].gets) + 1
           r == DjangoGetDatabase(django[j], database_name, n, Len(clients) + 1)
       IN /\ django' = [django EXCEPT ![j] =
                 [r.self EXCEPT !.gets = Append(@, [arg |-> database_name, out |-> r.out,
                                                    cfg |-> settings])]]
          /\ clients' = IF r.constructs
                        THEN Append(clients, [by |-> j, uri |-> r.self.uri, call |-> n])
                        ELSE clients
    /\ UNCHANGED <<pipeVars, repoVars, facadeVars, djangoInstalled, settings, direct>>

\* the configuration source changes under the running program
ChangeSettings(cfg) ==
    /\ djangoInstalled
    /\ cfg # settings
    /\ settings' = cfg
    /\ UNCHANGED <<pipeVars, repoVars, facadeVars, djangoInstalled, direct, django, clients>>

(***************************************************************************)
(* The repository facade.  A collection handle is an object: the index of  *)
(* its resolution in handles; a repository object is the index of its      *)
(* instantiation in wrappers.                                              *)
(***************************************************************************)
Facades == {"f1", "f2"}
NoHandle == 0
NoArgs == [collection_name |-> Unset, database_name |-> Unset, uri |-> Unset]

UnbornFacade == [state |-> "unborn", args |-> NoArgs, collection |-> NoHandle]

\* db[collection_name]: a collection object of database db
Collection(db, collection_name, by) ==
    [database |-> db, name |-> collection_name, by |-> by]

\* DBConnectionMixin.__init__: connection = MongoDBConnection(uri);
\* db = connection.get_database(database_name); self.collection = db[collection_name]
DBConnectionMixin(f, collection_name, database_name, uri) ==
    LET connection == [UnbornDirect EXCEPT !.state = "live", !.uri = uri]
        r == DirectGetDatabase(connection, database_name, Len(clients) + 1)
    IN /\ clients' = IF r.constructs
                     THEN Append(clients, [by |-> f, uri |-> r.self.uri, call |-> 1])
                     ELSE clients
       /\ handles' = Append(handles, Collection(r.out.value, collection_name, f))
       /\ facade' = [facade EXCEPT ![f] =
              [state |-> "live",
               args |-> [collection_name |-> collection_name,
                         database_name |-> database_name, uri |-> uri],
               collection |-> Len(handles) + 1]]

\* DBRepository(collection_name, database_name, uri): super().__init__(...)
DBRepository(f, collection_name, database_name, uri) ==
    /\ facade[f].state = "unborn"
    /\ DBConnectionMixin(f, collection_name, database_name, uri)
    /\ UNCHANGED <<pipeVars, repoVars, djangoInstalled, settings, direct, django,
                   wrappers, accessed>>

Wrapper(cls, collection) == [cls |-> cls, collection |-> collection]

MemoizedRepository(objs, cls, collection) ==
    IF \E w \in DOMAIN objs : objs[w] = Wrapper(cls, collection)
    THEN [ref |-> CHOOSE w \in DOMAIN objs : objs[w] = Wrapper(cls, collection),
          objs |-> objs]
    ELSE [ref |-> Len(objs) + 1, objs |-> Append(objs, Wrapper(cls, collection))]

\* <Class>(collection): __init__ sets self.collection = collection on a new object
NewRepository(objs, cls, collection) ==
    [ref |-> Len(objs) + 1, objs |-> Append(objs, Wrapper(cls, collection))]

AccessBudget == Len(accessed) < MaxAccesses

\* an accessor: return <Class>(self.collection)
Accessor(f, accessor, cls) ==
    /\ facade[f].state = "live"
    /\ AccessBudget
    /\ LET r == NewRepository(wrappers, cls, facade[f].collection)
       IN /\ wrappers' = r.objs
          /\ accessed' = Append(accessed,
                 [by |-> f, accessor |-> accessor, returned |-> r.ref])
    /\ UNCHANGED <<pipeVars, repoVars, connVars, handles, facade>>

find_repo(f) == Accessor(f, "find_repo", "FindRepository")

insert_repo(f) == Accessor(f, "insert_repo", "InsertRepository")

update_repo(f) == Accessor(f, "update_repo", "UpdateRepository")

delete_repo(f) == Accessor(f, "delete_repo", "DeleteRepository")

query_repo(f) == Accessor(f, "query_repo", "QueryRepository")

(***************************************************************************)
(* Inputs                                                                  *)
(***************************************************************************)
Queries == {"q1"}
Projections == {"p1"}
Counts == {5, 10}
UnwindFields == {"$items"}
Fields == {"a", "b"}
Directions == {1, -1}
Exprs == {"e1", "e2"}

StrKey(f) == [kind |-> "str", name |-> f, items |-> <<>>]
DictKey(d) == [kind |-> "dict", name |-> "", items |-> d]
OtherKey == [kind |-> "other", name |-> "", items |-> <<>>]

SeqsUpTo(S, n) == UNION {[1..k -> S] : k \in 0..n}

\* the mappings a groupby entry may be: one or two computed keys
GroupDicts ==
    {<<<<k, e>>>> : k \in Fields, e \in Exprs}
    \cup {<<<<"a", "e1">>, <<"b", "e2">>>>, <<<<"b", "e1">>, <<"a", "e2">>>>}

GroupKeys == {StrKey(f) : f \in Fields} \cup {DictKey(d) : d \in GroupDicts} \cup {OtherKey}

GroupBys == SeqsUpTo(GroupKeys, MaxGroupKeys)

Accumulators ==
    {<<>>, <<<<"total", "e1">>>>, <<<<"total", "e1">>, <<"n", "e2">>>>,
     <<<<"_id", "e2">>>>, <<<<"n", "e1">>, <<"_id", "e2">>>>}

SortPairs == Fields \X Directions

\* a sortby argument is a tuple (one pair) or a list of pairs
TupleArg(p) == [kind |-> "tuple", pair |-> p, pairs |-> <<>>]
ListArg(ps) == [kind |-> "list", pair |-> <<"", 0>>, pairs |-> ps]

SortBys == {TupleArg(p) : p \in SortPairs}
           \cup {ListArg(ps) : ps \in SeqsUpTo(SortPairs, MaxSortKeys)}

PipeInit ==
    /\ heap = <<>>
    /\ pipeline = [b \in Builders |-> NoRef]
    /\ calls = [b \in Builders |-> <<>>]
    /\ built = [b \in Builders |-> NoBuild]

RepoInit == repoLog = <<>>

Uris == {"u1", "u2"}
DbNames == {"n1", "n2"}

NoSection == [section |-> FALSE, URI |-> Missing, DB_NAME |-> Missing]

\* the 'mongodb' entry is absent, or holds a URI and a DB_NAME
Settings == {NoSection} \cup [section : {TRUE}, URI : Uris, DB_NAME : DbNames]

ConnUnborn ==
    /\ direct = [d \in Directs |-> UnbornDirect]
    /\ django = [j \in Djangos |-> UnbornDjango]
    /\ clients = <<>>

FacadeInit ==
    /\ handles = <<>>
    /\ facade = [f \in Facades |-> UnbornFacade]
    /\ wrappers = <<>>
    /\ accessed = <<>>

\* no framework, hence no settings of it
ConnInit == ConnUnborn /\ djangoInstalled = FALSE /\ settings = NoSection

Init == PipeInit /\ RepoInit /\ ConnInit /\ FacadeInit

\* the environment is either: the framework absent, or present with any settings
InitConn ==
    /\ PipeInit /\ RepoInit /\ ConnUnborn /\ FacadeInit
    /\ djangoInstalled \in BOOLEAN
    /\ settings \in (IF djangoInstalled THEN Settings ELSE {NoSection})

(***************************************************************************)
(* Builders used side by side: every stage method, and build().            *)
(***************************************************************************)
NextBuilder ==
    \/ \E b \in Builders : NewBuilder(b)
    \/ \E b \in Builders, q \in Queries : match(b, q)
    \/ \E b \in Builders, f \in Projections : project(b, f)
    \/ \E b \in Builders : group(b, <<StrKey("a")>>, <<<<"total", "e1">>>>)
    \/ \E b \in Builders : sort(b, TupleArg(<<"a", 1>>))
    \/ \E b \in Builders : skip(b, 5)
    \/ \E b \in Builders : limit(b, 10)
    \/ \E b \in Builders, f \in UnwindFields : unwind(b, f)
    \/ \E b \in Builders : build(b)

SpecBuilder == Init /\ [][NextBuilder]_vars

(***************************************************************************)
(* One builder whose built pipeline is handed to the aggregation methods   *)
(* of the repositories, and which is used again afterwards.                *)
(***************************************************************************)
HandOverOutcomes == DriverOutcomes("aggregate", 0)

CanHandOver(b) == built[b].ref # NoRef /\ Len(repoLog) < MaxHandOvers

NextHandOver ==
    \/ NewBuilder("b1")
    \/ \E q \in Queries : match("b1", q)
    \/ limit("b1", 10)
    \/ build("b1")
    \/ \E o \in HandOverOutcomes :
          CanHandOver("b1") /\ aggregate(PipelineArg(built["b1"].ref), o)
    \/ \E o \in HandOverOutcomes :
          CanHandOver("b1") /\ aggregate_exhausted(PipelineArg(built["b1"].ref), o)
    \/ \E o \in HandOverOutcomes :
          CanHandOver("b1") /\ filter_query(PipelineArg(built["b1"].ref), o)

SpecHandOver == Init /\ [][NextHandOver]_vars

(***************************************************************************)
(* group() on every groupby list and every set of accumulators, on an      *)
(* empty pipeline and after another stage.                                 *)
(***************************************************************************)
NoGroupYet(b) == \A i \in DOMAIN calls[b] : calls[b][i].method # "group"

NextGroup ==
    \/ NewBuilder("b1")
    \/ \E q \in Queries : NoGroupYet("b1") /\ match("b1", q)
    \/ NoGroupYet("b1") /\ StageBudget /\ pipeline["b1"] # NoRef
          /\ \E g \in GroupBys, k \in Accumulators : group("b1", g, k)
    \/ build("b1")

SpecGroup == Init /\ [][NextGroup]_vars

(***************************************************************************)
(* group() on two builders, on groupby lists that hold entries of another  *)
(* type and with accumulators that may be named _id.                       *)
(***************************************************************************)
LossGroupBys == SeqsUpTo({StrKey("a"), DictKey(<<<<"b", "e1">>>>), OtherKey}, MaxGroupKeys)

LossAccumulators ==
    {<<>>, <<<<"total", "e1">>>>, <<<<"_id", "e2">>>>, <<<<"n", "e1">>, <<"_id", "e2">>>>}

NextGroupLoss ==
    \/ \E b \in Builders : NewBuilder(b)
    \/ \E b \in Builders : NoGroupYet(b) /\ limit(b, 10)
    \/ \E b \in Builders :
          NoGroupYet(b) /\ StageBudget /\ pipeline[b] # NoRef
             /\ \E g \in LossGroupBys, k \in LossAccumulators : group(b, g, k)

SpecGroupLoss == Init /\ [][NextGroupLoss]_vars

(***************************************************************************)
(* sort() on a single pair and on every list of pairs, on two builders.    *)
(***************************************************************************)
NoSortYet(b) == \A i \in DOMAIN calls[b] : calls[b][i].method # "sort"

NextSort ==
    \/ \E b \in Builders : NewBuilder(b)
    \/ \E b \in Builders : NoSortYet(b) /\ skip(b, 5)
    \/ \E b \in Builders :
          NoSortYet(b) /\ StageBudget /\ pipeline[b] # NoRef /\ \E s \in SortBys : sort(b, s)

SpecSort == Init /\ [][NextSort]_vars

(***************************************************************************)
(* The repository operations, each on every driver outcome.                *)
(***************************************************************************)
Docs == {"d1"}
Updates == {"u1"}
DocLists == SeqsUpTo(Docs, MaxDocs)
RepoPipelines == {LiteralPipeline(<<Stage("$match", "q1")>>)}

NextRepo ==
    \/ \E q \in Queries, o \in DriverOutcomes("find", 0) : find(q, o)
    \/ \E pl \in RepoPipelines, o \in DriverOutcomes("aggregate", 0) : filter_query(pl, o)
    \/ \E d \in Docs, o \in DriverOutcomes("insert_one", 1) : insert_one(d, o)
    \/ \E ds \in DocLists : \E o \in DriverOutcomes("insert_many", Len(ds)) :
          insert_many(ds, o)
    \/ \E q \in Queries, u \in Updates, o \in DriverOutcomes("update_one", 0) :
          update_one(q, u, o)
    \/ \E q \in Queries, u \in Updates, o \in DriverOutcomes("update_many", 0) :
          update_many(q, u, o)
    \/ \E q \in Queries, u \in Updates, o \in DriverOutcomes("update_one", 0) :
          upsert(q, u, o)
    \/ \E q \in Queries, o \in DriverOutcomes("delete_one", 0) : delete_one(q, o)
    \/ \E pl \in RepoPipelines, o \in DriverOutcomes("aggregate", 0) : aggregate(pl, o)
    \/ \E pl \in RepoPipelines, o \in DriverOutcomes("aggregate", 0) :
          aggregate_exhausted(pl, o)

SpecRepo == Init /\ [][NextRepo]_vars

(***************************************************************************)
(* The claims about the pipeline builder.                                  *)
(***************************************************************************)
Constructed(b) == pipeline[b] # NoRef

Stages(b) == heap[pipeline[b]]

LastCall(b) == calls[b][Len(calls[b])]

LastStage(b) == Stages(b)[Len(Stages(b))]

Verbatim == {"match", "project", "skip", "limit", "unwind"}

\* stage st is the stage that call c produces: the operator of c's method and,
\* for the methods that pass their argument through, that argument
StageOfCall(st, c) ==
    /\ st.op = "$" \o c.method
    /\ IF c.method \in Verbatim THEN st.payload = c.args[1] ELSE TRUE

InCallOrder(stages, cs, n) ==
    /\ Len(stages) = n
    /\ \A i \in 1..n : StageOfCall(stages[i], cs[i])

\* C1: build() on a builder returns exactly one stage per stage call made so far
\* on that builder, in call order; build() changes no stage, and the calls made on
\* another builder never show in the result (no two builders share a list).
C1_BuildReturnsCallOrder ==
    /\ \A b \in Builders :
          /\ Constructed(b) => InCallOrder(Stages(b), calls[b], Len(calls[b]))
          /\ built[b].ref # NoRef =>
                /\ built[b].ref = pipeline[b]
                /\ InCallOrder(built[b].seen, calls[b], built[b].ncalls)
    /\ \A b, c \in Builders :
          (b # c /\ Constructed(b) /\ Constructed(c)) => pipeline[b] # pipeline[c]

\* two builders in use, one of them built between two different stage calls
C1_Witness ==
    \E b, c \in Builders :
        /\ b # c
        /\ Len(calls[b]) = 2
        /\ calls[b][1].method = "skip" /\ calls[b][2].method = "limit"
        /\ built[b].ref # NoRef /\ built[b].ncalls = 1
        /\ Len(calls[c]) = 1 /\ calls[c][1].method = "match"
        /\ built[c].ref # NoRef /\ built[c].ncalls = 1

AggregationOps == {"aggregate", "aggregate_exhausted", "filter_query"}

\* C2: a pipeline handed to an aggregation method is immutable: no later stage
\* call on the builder that produced it changes the content or the length of the
\* handed-over sequence.
C2_HandedPipelineImmutable ==
    \A i \in DOMAIN repoLog :
        IF repoLog[i].op \in AggregationOps
        THEN LET pl == repoLog[i].args[1]
             IN pl.ref # NoRef => heap[pl.ref] = pl.at
        ELSE TRUE

\* the key/value pairs a groupby list supplies, left to right
RECURSIVE Supplied(_)
Supplied(groupby) ==
    IF groupby = <<>> THEN <<>>
    ELSE (IF Head(groupby).kind = "str"
          THEN <<<<Head(groupby).name, "$" \o Head(groupby).name>>>>
          ELSE Head(groupby).items) \o Supplied(Tail(groupby))

NamesAndMappings(groupby) ==
    \A i \in DOMAIN groupby : groupby[i].kind \in {"str", "dict"}

FirstAt(pairs, k) ==
    CHOOSE i \in DOMAIN pairs :
        pairs[i][1] = k /\ \A j \in 1..(i - 1) : pairs[j][1] # k

LastAt(pairs, k) ==
    CHOOSE i \in DOMAIN pairs :
        pairs[i][1] = k /\ \A j \in (i + 1)..Len(pairs) : pairs[j][1] # k

DistinctKeys(d) == \A i, j \in DOMAIN d : d[i][1] = d[j][1] => i = j

\* M is the identifier mapping of the pairs supplied: the keys supplied, each
\* once, in the order first supplied, each with the value supplied last
IdentifierOf(M, pairs) ==
    /\ DistinctKeys(M)
    /\ DictKeys(M) = DictKeys(pairs)
    /\ \A i, j \in DOMAIN M :
          i < j => FirstAt(pairs, M[i][1]) < FirstAt(pairs, M[j][1])
    /\ \A i \in DOMAIN M : M[i][2] = pairs[LastAt(pairs, M[i][1])][2]

NotId(pair) == pair[1] # "_id"

\* C3: group(groupby, **accumulators), groupby a list of field names and
\* mappings, appends exactly one stage {$group: {_id: M, ...accumulators}}: M holds
\* the keys in the order first supplied, a name f as '$f', a later entry
\* overwriting an earlier value; the accumulators follow _id as its siblings (one
\* named _id takes _id's place, as in any mapping written {_id: M, ...rest}).
C3_GroupStage ==
    \A b \in Builders :
        (Constructed(b) /\ calls[b] # <<>>) =>
            IF LastCall(b).method = "group"
            THEN LET groupby == LastCall(b).args[1]
                     accumulators == LastCall(b).args[2]
                     st == LastStage(b)
                 IN NamesAndMappings(groupby) =>
                      /\ Len(Stages(b)) = Len(calls[b])
                      /\ \A i \in 1..(Len(calls[b]) - 1) :
                            StageOfCall(Stages(b)[i], calls[b][i])
                      /\ st.op = "$group"
                      /\ st.payload[1][1] = "_id"
                      /\ Tail(st.payload) = SelectSeq(accumulators, NotId)
                      /\ IF "_id" \in DictKeys(accumulators)
                         THEN st.payload[1][2] = DictGet(accumulators, "_id")
                         ELSE IdentifierOf(st.payload[1][2], Supplied(groupby))
            ELSE TRUE

\* group(['a', {'b': e1, 'a': e2}], total=e1) after a match: a is overwritten in
\* place, b follows it
C3_Witness ==
    /\ Constructed("b1")
    /\ Len(calls["b1"]) = 2
    /\ calls["b1"][1].method = "match"
    /\ LastCall("b1").method = "group"
    /\ LastCall("b1").args[1] = <<StrKey("a"), DictKey(<<<<"b", "e1">>, <<"a", "e2">>>>)>>
    /\ LastCall("b1").args[2] = <<<<"total", "e1">>>>
    /\ Len(Stages("b1")) = 2
    /\ LastStage("b1") = Stage("$group",
           <<<<"_id", <<<<"a", "e2">>, <<"b", "e1">>>>>>, <<"total", "e1">>>>)

IsNameOrMapping(field) == field.kind \in {"str", "dict"}

IdAt(payload) == {i \in DOMAIN payload : payload[i][1] = "_id"}

GroupedLast(b) == Constructed(b) /\ calls[b] # <<>> /\ LastCall(b).method = "group"

\* C13: group(groupby, **accumulators) raises nothing and appends exactly one
\* $group stage, with one _id, also when the identifier is lost or truncated: with
\* an accumulator named _id, the stage's _id is that accumulator's value and
\* nothing of the identifier built from groupby remains; otherwise, with a groupby
\* entry that is neither a name nor a mapping, the identifier is the one of the
\* other entries alone, the entry contributing no key.
C13_IdentifierLostSilently ==
    \A b \in Builders :
        GroupedLast(b) =>
            LET groupby == LastCall(b).args[1]
                accumulators == LastCall(b).args[2]
                st == LastStage(b)
                replaced == "_id" \in DictKeys(accumulators)
                skipped == ~NamesAndMappings(groupby)
            IN (replaced \/ skipped) =>
                  /\ Len(Stages(b)) = Len(calls[b])
                  /\ \A i \in 1..(Len(calls[b]) - 1) :
                        StageOfCall(Stages(b)[i], calls[b][i])
                  /\ st.op = "$group"
                  /\ Cardinality(IdAt(st.payload)) = 1
                  /\ DictKeys(st.payload) = {"_id"} \cup DictKeys(accumulators)
                  /\ IF replaced
                     THEN DictGet(st.payload, "_id") = DictGet(accumulators, "_id")
                     ELSE IdentifierOf(DictGet(st.payload, "_id"),
                                       Supplied(SelectSeq(groupby, IsNameOrMapping)))

\* on one builder group(['a'], _id=e2), whose stage holds nothing of a; on the
\* other, after a limit, group(['a', <another type>], total=e1), grouped by a alone
C13_Witness ==
    /\ GroupedLast("b1") /\ GroupedLast("b2")
    /\ LastCall("b1").args = <<<<StrKey("a")>>, <<<<"_id", "e2">>>>>>
    /\ Stages("b1") = <<Stage("$group", <<<<"_id", "e2">>>>)>>
    /\ Len(calls["b2"]) = 2
    /\ LastCall("b2").args = <<<<StrKey("a"), OtherKey>>, <<<<"total", "e1">>>>>>
    /\ Stages("b2") = <<Stage("$limit", 10),
                        Stage("$group", <<<<"_id", <<<<"a", "$a">>>>>>, <<"total", "e1">>>>)>>

DistinctFields(pairs) == \A i, j \in DOMAIN pairs : pairs[i][1] = pairs[j][1] => i = j

SortedOnce(b) == Constructed(b) /\ calls[b] # <<>> /\ LastCall(b).method = "sort"

\* C4: sort((field, dir)) and sort([(field, dir)]) append identical stages
\* {$sort: {field: dir}}, and sort(pairs) on pairs with distinct fields appends one
\* stage whose mapping lists the fields in the declared order with their
\* declared directions.
C4_SortStage ==
    /\ \A b \in Builders :
          SortedOnce(b) =>
              LET sortby == LastCall(b).args[1]
              IN /\ Len(Stages(b)) = Len(calls[b])
                 /\ LastStage(b).op = "$sort"
                 /\ sortby.kind = "tuple" => LastStage(b).payload = <<sortby.pair>>
                 /\ (sortby.kind = "list" /\ DistinctFields(sortby.pairs)) =>
                        LastStage(b).payload = sortby.pairs
    /\ \A b, c \in Builders :
          (SortedOnce(b) /\ SortedOnce(c)) =>
              LET sb == LastCall(b).args[1]
                  sc == LastCall(c).args[1]
              IN (sb.kind = "tuple" /\ sc.kind = "list" /\ sc.pairs = <<sb.pair>>) =>
                     LastStage(b) = LastStage(c)

\* one builder sorted by the pair (a, -1), the other by the list [(a, -1)]
C4_Witness ==
    /\ SortedOnce("b1") /\ SortedOnce("b2")
    /\ LastCall("b1").args[1] = TupleArg(<<"a", -1>>)
    /\ LastCall("b2").args[1] = ListArg(<<<<"a", -1>>>>)
    /\ LastStage("b1") = Stage("$sort", <<<<"a", -1>>>>)
    /\ LastStage("b2") = Stage("$sort", <<<<"a", -1>>>>)

\* a list of two pairs with distinct fields, declared b before a
C4_WitnessOrder ==
    /\ SortedOnce("b1")
    /\ LastCall("b1").args[1] = ListArg(<<<<"b", 1>>, <<"a", -1>>>>)
    /\ LastStage("b1") = Stage("$sort", <<<<"b", 1>>, <<"a", -1>>>>)

(***************************************************************************)
(* The connection providers, under a configuration source that may change. *)
(***************************************************************************)
NextConn ==
    \/ \E d \in Directs, u \in Uris : MongoDBConnection(d, u)
    \/ \E d \in Directs, n \in DbNames : direct_get_database(d, n)
    \/ \E j \in Djangos, u \in Uris : DjangoMongoDBConnection(j, u)
    \/ \E j \in Djangos, n \in DbNames : django_get_database(j, n)
    \/ \E cfg \in Settings : ChangeSettings(cfg)

SpecConn == InitConn /\ [][NextConn]_vars

(***************************************************************************)
(* The claims about the connection providers.                              *)
(***************************************************************************)
ClientsOf(p) == {c \in DOMAIN clients : clients[c].by = p}

\* C5: over any sequence of get_database calls on one MongoDBConnection, a client
\* is constructed at most once, in the first call and not at construction, from
\* the provider's URI, and every call returns the database of the name asked for
\* from that one cached client.
C5_DirectClientOnce ==
    \A d \in Directs :
        LET self == direct[d]
            mine == ClientsOf(d)
        IN /\ Cardinality(mine) <= 1
           /\ self.gets = <<>> => (mine = {} /\ self.client = NoClient)
           /\ self.gets # <<>> =>
                 \E c \in mine :
                     /\ clients[c].call = 1
                     /\ clients[c].uri = self.uri
                     /\ self.client = c
                     /\ \A i \in DOMAIN self.gets :
                            self.gets[i].out = Return(Handle(c, self.gets[i].arg))

\* three calls, the first two for different databases
C5_Witness ==
    /\ Len(direct["d1"].gets) = 3
    /\ direct["d1"].gets[1].arg # direct["d1"].gets[2].arg
    /\ direct["d1"].client # NoClient
    /\ Cardinality(ClientsOf("d1")) = 1

ArgsOf(gets) == [i \in DOMAIN gets |-> gets[i].arg]

HandleUris(gets) == [i \in DOMAIN gets |-> clients[gets[i].out.value.client].uri]

HandleNames(gets) == [i \in DOMAIN gets |-> gets[i].out.value.name]

\* C6: with the framework absent, a DjangoMongoDBConnection given URI u behaves as
\* a MongoDBConnection given u: its construction succeeds, and on the same
\* get_database calls both construct as many clients, from the same URI, and
\* return handles for the same database names.
C6_AbsentFrameworkLikeDirect ==
    ~djangoInstalled =>
        \A j \in Djangos, d \in Directs :
            (/\ django[j].state # "unborn"
             /\ direct[d].state = "live"
             /\ django[j].uri = direct[d].uri) =>
                /\ django[j].state = "live"
                /\ ArgsOf(django[j].gets) = ArgsOf(direct[d].gets) =>
                      /\ Cardinality(ClientsOf(j)) = Cardinality(ClientsOf(d))
                      /\ HandleUris(django[j].gets) = HandleUris(direct[d].gets)
                      /\ HandleNames(django[j].gets) = HandleNames(direct[d].gets)

ReadsOf(self, key) == {i \in DOMAIN self.reads : self.reads[i].key = key}

Found(self, key) == {i \in ReadsOf(self, key) : self.reads[i].found.kind = "return"}

CachedBefore(p, n) == \E c \in ClientsOf(p) : clients[c].call < n

C8_WitnessLazy ==
    LET self == django["j1"]
    IN /\ djangoInstalled /\ self.state = "live"
       /\ Len(self.gets) = 2
       /\ ~self.gets[1].cfg.section /\ self.gets[1].out.kind = "raise"
       /\ self.gets[2].cfg.section /\ self.gets[2].out.kind = "return"

Returned(self) == {n \in DOMAIN self.gets : self.gets[n].out.kind = "return"}

CollectionNames == {"c1", "c2"}

NextFacade ==
    \/ \E f \in Facades, c \in CollectionNames, n \in DbNames :
          DBRepository(f, c, n, "u1")
    \/ \E f \in Facades : find_repo(f)
    \/ \E f \in Facades : insert_repo(f)
    \/ \E f \in Facades : update_repo(f)
    \/ \E f \in Facades : delete_repo(f)
    \/ \E f \in Facades : query_repo(f)

SpecFacade == Init /\ [][NextFacade]_vars

(***************************************************************************)
(* The claims about the facade.                                            *)
(***************************************************************************)
HandlesOf(f) == {h \in DOMAIN handles : handles[h].by = f}

ClassOf(accessor) ==
    CASE accessor = "find_repo" -> "FindRepository"
      [] accessor = "insert_repo" -> "InsertRepository"
      [] accessor = "update_repo" -> "UpdateRepository"
      [] accessor = "delete_repo" -> "DeleteRepository"
      [] accessor = "query_repo" -> "QueryRepository"

\* C11: a DBRepository resolves exactly one collection handle, at construction,
\* of the collection and database it was given, from one client; every accessor
\* call returns a repository object of the accessor's class that no other call
\* returned, holding that identical handle; and no accessor call resolves a
\* handle, changes the facade's handle or constructs a client.
C11_FacadeOneHandle ==
    /\ \A f \in Facades :
          IF facade[f].state = "unborn"
          THEN HandlesOf(f) = {} /\ ClientsOf(f) = {}
          ELSE /\ HandlesOf(f) = {facade[f].collection}
               /\ Cardinality(ClientsOf(f)) = 1
               /\ \A c \in ClientsOf(f) :
                     /\ clients[c].uri = facade[f].args.uri
                     /\ handles[facade[f].collection] =
                            Collection(Handle(c, facade[f].args.database_name),
                                       facade[f].args.collection_name, f)
    /\ \A i \in DOMAIN accessed :
          LET e == accessed[i]
          IN /\ e.returned \in DOMAIN wrappers
             /\ wrappers[e.returned].cls = ClassOf(e.accessor)
             /\ wrappers[e.returned].collection = facade[e.by].collection
             /\ \A k \in DOMAIN accessed : k # i => accessed[k].returned # e.returned

\* two facades on the same collection of the same database: the same accessor
\* called twice on one of them and once on the other
C11_Witness ==
    /\ facade["f1"].state = "live" /\ facade["f2"].state = "live"
    /\ facade["f1"].args = facade["f2"].args
    /\ facade["f1"].collection # facade["f2"].collection
    /\ Len(accessed) = 3
    /\ accessed[1].by = "f1" /\ accessed[2].by = "f2" /\ accessed[3].by = "f1"
    /\ \A i \in 1..3 : accessed[i].accessor = "query_repo"
    /\ wrappers[accessed[1].returned] = wrappers[accessed[3].returned]
    /\ accessed[1].returned # accessed[3].returned

(***************************************************************************)
(* The claims about the repositories.                                      *)
(***************************************************************************)
DriverMethodOf(op) ==
    CASE op = "upsert" -> "update_one"
      [] op \in AggregationOps -> "aggregate"
      [] OTHER -> op

BulkWriteFailed(o) == o.kind = "raise" /\ o.error.type = "BulkWriteError"

====
